---- MODULE Spec2Model ----
(***************************************************************************)
(* Model of pdf_rect_picker.py: the PdfViewerWidget selection state        *)
(* machine, its widget<->PDF coordinate mapping, and the MainWindow        *)
(* commands (open, page navigation, zoom, clear, copy).                    *)
(*                                                                         *)
(* Arithmetic.  The program computes in Python floats.  Every number it    *)
(* can produce here is an integer times a power of 2, 3 and 5 (pointer     *)
(* positions are integers, offsets are half-integers, the scale is a       *)
(* product of 1.25 = 5/2^2, 6.0 = 2*3 and 0.2 = 1/5), so the model         *)
(* computes with those numbers exactly: a number is the record             *)
(* [m, e2, e3, e5] standing for m * 2^e2 * 3^e3 * 5^e5.  Rounding of the   *)
(* floating-point operations is not modelled.                              *)
(***************************************************************************)
EXTENDS Integers, Sequences, FiniteSets, TLC

(***************************************************************************)
(* Exact numbers                                                           *)
(***************************************************************************)

Abs(n) == IF n < 0 THEN -n ELSE n

RECURSIVE Norm(_, _, _, _)
\* the canonical record of m * 2^a * 3^b * 5^c: m = 0, or m coprime to 30
Norm(m, a, b, c) ==
    IF m = 0 THEN [m |-> 0, e2 |-> 0, e3 |-> 0, e5 |-> 0]
    ELSE IF m % 2 = 0 THEN Norm(m \div 2, a + 1, b, c)
    ELSE IF m % 3 = 0 THEN Norm(m \div 3, a, b + 1, c)
    ELSE IF m % 5 = 0 THEN Norm(m \div 5, a, b, c + 1)
    ELSE [m |-> m, e2 |-> a, e3 |-> b, e5 |-> c]

Num(n) == Norm(n, 0, 0, 0)

Half(n) == Norm(n, -1, 0, 0)

RECURSIVE Pow(_, _)
Pow(p, e) == IF e <= 0 THEN 1 ELSE p * Pow(p, e - 1)

Min2(i, j) == IF i < j THEN i ELSE j

Max2(i, j) == IF i > j THEN i ELSE j

\* x * y
Mul(x, y) == Norm(x.m * y.m, x.e2 + y.e2, x.e3 + y.e3, x.e5 + y.e5)

\* x / y for y a scale (a pure product of powers of 2, 3 and 5)
Div(x, y) == Norm(x.m, x.e2 - y.e2, x.e3 - y.e3, x.e5 - y.e5)

\* x + y, over the common power-of-2,3,5 factor of the two
Add(x, y) ==
    IF x.m = 0 THEN y
    ELSE IF y.m = 0 THEN x
    ELSE LET a == Min2(x.e2, y.e2)
             b == Min2(x.e3, y.e3)
             c == Min2(x.e5, y.e5)
             mx == x.m * Pow(2, x.e2 - a) * Pow(3, x.e3 - b) * Pow(5, x.e5 - c)
             my == y.m * Pow(2, y.e2 - a) * Pow(3, y.e3 - b) * Pow(5, y.e5 - c)
         IN Norm(mx + my, a, b, c)

Neg(x) == [x EXCEPT !.m = -x.m]

Sub(x, y) == Add(x, Neg(y))

(***************************************************************************)
(* Order.  Magnitudes are compared as long naturals (little-endian limbs   *)
(* in base 10000), since 5^15 and 4^16 do not fit a machine integer.       *)
(***************************************************************************)

RECURSIVE BigOf(_)
BigOf(n) == IF n = 0 THEN <<>> ELSE <<n % 10000>> \o BigOf(n \div 10000)

RECURSIVE BigMulCarry(_, _, _)
BigMulCarry(b, k, carry) ==
    IF b = <<>> THEN BigOf(carry)
    ELSE LET v == Head(b) * k + carry
         IN <<v % 10000>> \o BigMulCarry(Tail(b), k, v \div 10000)

RECURSIVE BigMulPow(_, _, _)
\* b * p^e
BigMulPow(b, p, e) ==
    IF e <= 0 THEN b
    ELSE IF e >= 6 THEN BigMulPow(BigMulCarry(b, Pow(p, 6), 0), p, e - 6)
    ELSE BigMulCarry(b, Pow(p, e), 0)

RECURSIVE BigLess(_, _)
BigLess(a, b) ==
    IF Len(a) # Len(b) THEN Len(a) < Len(b)
    ELSE IF a = <<>> THEN FALSE
    ELSE LET n == Len(a)
         IN IF a[n] # b[n] THEN a[n] < b[n]
            ELSE BigLess(SubSeq(a, 1, n - 1), SubSeq(b, 1, n - 1))

RECURSIVE BigDivRem(_, _)
\* quotient (limbs, possibly with leading zeros) and remainder of b by k
BigDivRem(b, k) ==
    IF b = <<>> THEN [q |-> <<>>, r |-> 0]
    ELSE LET hi == BigDivRem(Tail(b), k)
             cur == hi.r * 10000 + Head(b)
         IN [q |-> <<cur \div k>> \o hi.q, r |-> cur % k]

RECURSIVE BigDivPow(_, _, _)
\* floor(b / p^e)
BigDivPow(b, p, e) ==
    IF e <= 0 THEN b
    ELSE IF e >= 6 THEN BigDivPow(BigDivRem(b, Pow(p, 6)).q, p, e - 6)
    ELSE BigDivRem(b, Pow(p, e)).q

RECURSIVE IntOfBig(_)
IntOfBig(b) == IF b = <<>> THEN 0 ELSE Head(b) + 10000 * IntOfBig(Tail(b))

\* |m| * 2^a * 3^b * 5^c as a long natural, for a, b, c >= 0
BigMag(m, a, b, c) == BigMulPow(BigMulPow(BigMulPow(BigOf(Abs(m)), 2, a), 3, b), 5, c)

\* |m| * 2^a * 3^b * 5^c fits a machine integer
FitsInt(m, a, b, c) == Abs(m) < 4096 /\ a + 2 * b + 3 * c <= 18

\* |x| < |y| for nonzero x and y
MagLess(x, y) ==
    LET a == Min2(x.e2, y.e2)
        b == Min2(x.e3, y.e3)
        c == Min2(x.e5, y.e5)
    IN IF /\ FitsInt(x.m, x.e2 - a, x.e3 - b, x.e5 - c)
          /\ FitsInt(y.m, y.e2 - a, y.e3 - b, y.e5 - c)
       THEN Abs(x.m) * Pow(2, x.e2 - a) * Pow(3, x.e3 - b) * Pow(5, x.e5 - c)
            < Abs(y.m) * Pow(2, y.e2 - a) * Pow(3, y.e3 - b) * Pow(5, y.e5 - c)
       ELSE BigLess(BigMag(x.m, x.e2 - a, x.e3 - b, x.e5 - c),
                    BigMag(y.m, y.e2 - a, y.e3 - b, y.e5 - c))

\* x < y
Less(x, y) ==
    IF x = y THEN FALSE
    ELSE IF x.m <= 0 /\ y.m >= 0 THEN TRUE
    ELSE IF x.m >= 0 /\ y.m <= 0 THEN FALSE
    ELSE IF x.m > 0 THEN MagLess(x, y)
    ELSE MagLess(y, x)

Leq(x, y) == x = y \/ Less(x, y)

\* Python's min(x, y) and max(x, y)
PyMin(x, y) == IF Less(y, x) THEN y ELSE x

PyMax(x, y) == IF Less(x, y) THEN y ELSE x

\* floor(x) for x >= 0
Floor(x) ==
    IntOfBig(BigDivPow(BigDivPow(BigDivPow(
        BigMag(x.m, Max2(x.e2, 0), Max2(x.e3, 0), Max2(x.e5, 0)),
        2, -x.e2), 3, -x.e3), 5, -x.e5))

\* ceil(x) for x >= 0: x is an integer just when no exponent is negative
Ceil(x) ==
    IF x.e2 >= 0 /\ x.e3 >= 0 /\ x.e5 >= 0 THEN Floor(x) ELSE Floor(x) + 1

(***************************************************************************)
(* Values                                                                  *)
(***************************************************************************)

\* Python's None
None == [tag |-> "None"]

Zero == Num(0)

\* fitz.Rect(x0, y0, x1, y1)
Rect(x0, y0, x1, y1) == [x0 |-> x0, y0 |-> y0, x1 |-> x1, y1 |-> y1]

\* bool(rect) of a fitz.Rect or None: a rectangle is false only when all four
\* coordinates are 0
Truthy(rect) ==
    /\ rect # None
    /\ ~(rect.x0 = Zero /\ rect.y0 = Zero /\ rect.x1 = Zero /\ rect.y1 = Zero)

\* width taken as abs(x1 - x0): zero only when the edges coincide
WidthIsZeroAbs(rect) == rect.x1 = rect.x0

\* fitz.Rect.width == 0 and fitz.Rect.height == 0; width is max(0, x1 - x0)
\* and height is max(0, y1 - y0)
WidthIsZero(rect) == Leq(rect.x1, rect.x0)

HeightIsZero(rect) == Leq(rect.y1, rect.y0)

\* A screen coordinate is the sum p + o of a scaled page coordinate p and a
\* pixel offset o (an integer or half-integer).
Screen(p, o) == [p |-> p, o |-> o]

Pixel(n) == Screen(Zero, Num(n))

ScreenLess(a, b) ==
    IF a.o = b.o THEN Less(a.p, b.p) ELSE Less(Add(a.p, a.o), Add(b.p, b.o))

\* QRect(topLeft, bottomRight): the corners are inclusive
QRect(p, q) == [x1 |-> p[1], y1 |-> p[2], x2 |-> q[1], y2 |-> q[2]]

\* QRect(topLeft, QSize()): an invalid size is (-1, -1)
QRectOfSize(p) == [x1 |-> p[1], y1 |-> p[2], x2 |-> p[1] - 2, y2 |-> p[2] - 2]

\* QRect.normalized()
Normalized(r) ==
    [x1 |-> IF r.x2 < r.x1 THEN r.x2 + 1 ELSE r.x1,
     y1 |-> IF r.y2 < r.y1 THEN r.y2 + 1 ELSE r.y1,
     x2 |-> IF r.x2 < r.x1 THEN r.x1 - 1 ELSE r.x2,
     y2 |-> IF r.y2 < r.y1 THEN r.y1 - 1 ELSE r.y2]

\* QRectF(QRect): left, top, width = x2 - x1 + 1, height = y2 - y1 + 1,
\* kept as its four edges
QRectF(r) ==
    [left |-> Pixel(r.x1), top |-> Pixel(r.y1),
     right |-> Pixel(r.x2 + 1), bottom |-> Pixel(r.y2 + 1)]

\* QRectF(topLeft, bottomRight).normalized()
NormalizedF(l, t, r, b) ==
    [left |-> IF ScreenLess(r, l) THEN r ELSE l,
     top |-> IF ScreenLess(b, t) THEN b ELSE t,
     right |-> IF ScreenLess(r, l) THEN l ELSE r,
     bottom |-> IF ScreenLess(b, t) THEN t ELSE b]

(***************************************************************************)
(* Bounds and inputs                                                       *)
(***************************************************************************)

\* the documents that can be opened have 1..MaxPages pages
MaxPages == 2

\* under Spec the user zooms at most MaxZoomSteps steps away from scale 1.0
MaxZoomSteps == 2

\* positions of the pointer, after toPoint()
Points == {<<10, 10>>, <<49, 49>>}

Buttons == {"left", "right"}

\* sizes the scroll area's viewport is resized to
ViewportSizes == {<<240, 220>>}

\* getOpenFileName()'s answer: cancelled, or a path; fitz.open() raises on
\* a path with pages = 0
Paths ==
    {[chosen |-> FALSE, pages |-> 0]} \cup
    {[chosen |-> TRUE, pages |-> n] : n \in 0..MaxPages}

\* page.rect of page i of a document
PageRect(i) ==
    IF i % 2 = 0 THEN Rect(Zero, Zero, Num(200), Num(200))
    ELSE Rect(Zero, Zero, Num(100), Num(100))

(***************************************************************************)
(* State                                                                   *)
(***************************************************************************)

VARIABLES
    doc,                 \* MainWindow.doc
    current_page_index,  \* MainWindow.current_page_index
    scale_factor,        \* MainWindow.scale_factor
    buttons,             \* enabled state of MainWindow.buttons
    json_view,           \* what update_selection_info last displayed
    pixmap,              \* PdfViewerWidget.pixmap: None or its size
    page_rect,           \* PdfViewerWidget.page_rect
    viewer_scale_factor, \* PdfViewerWidget.scale_factor
    pdf_selection,       \* PdfViewerWidget._pdf_selection
    dragging,            \* PdfViewerWidget._dragging
    drag_start,          \* PdfViewerWidget._drag_start
    viewport_size,       \* PdfViewerWidget._viewport_size
    rubber_band,         \* PdfViewerWidget._rubber_band: None while hidden
    emitted              \* selection_changed emissions of the last handler

window == <<doc, current_page_index, scale_factor, buttons, json_view>>

viewer == <<pixmap, page_rect, viewer_scale_factor, pdf_selection, dragging,
            drag_start, viewport_size, rubber_band>>

vars == <<window, viewer, emitted>>

(***************************************************************************)
(* PdfViewerWidget                                                         *)
(***************************************************************************)

\* _render_page_pixmap: the raster of the page at the scale; its size is the
\* scaled page size rounded up to whole pixels
RenderPagePixmap(rect, scale) ==
    [w |-> Ceil(Mul(rect.x1, scale)), h |-> Ceil(Mul(rect.y1, scale))]

\* _update_widget_size: the size the widget is resized to
WidgetSize(pm, vp) == <<Max2(pm.w, vp[1]), Max2(pm.h, vp[2])>>

\* image_offsets
ImageOffsets(pm, vp) ==
    IF pm = None THEN <<Zero, Zero>>
    ELSE <<Half(Max2(WidgetSize(pm, vp)[1] - pm.w, 0)),
           Half(Max2(WidgetSize(pm, vp)[2] - pm.h, 0))>>

\* (c - offset) / scale for a screen coordinate c
ToPage(c, off, scale) == Div(Add(c.p, Sub(c.o, off)), scale)

\* _widget_rect_to_pdf without the clamp to the page bounds
WidgetRectToPdfNoClamp(rect, pr, scale, off) ==
    IF ~Truthy(pr) THEN None
    ELSE LET x0 == ToPage(rect.left, off[1], scale)
             y0 == ToPage(rect.top, off[2], scale)
             x1 == ToPage(rect.right, off[1], scale)
             y1 == ToPage(rect.bottom, off[2], scale)
             norm == Rect(PyMin(x0, x1), PyMin(y0, y1), PyMax(x0, x1), PyMax(y0, y1))
         IN IF WidthIsZero(norm) \/ HeightIsZero(norm) THEN None
            ELSE norm

\* _widget_rect_to_pdf; x0 + rect.width() / scale is computed as
\* (rect.right() - offset_x) / scale, the same number
WidgetRectToPdf(rect, pr, scale, off) ==
    IF ~Truthy(pr) THEN None
    ELSE LET x0 == ToPage(rect.left, off[1], scale)
             y0 == ToPage(rect.top, off[2], scale)
             x1 == ToPage(rect.right, off[1], scale)
             y1 == ToPage(rect.bottom, off[2], scale)
             norm == Rect(PyMin(x0, x1), PyMin(y0, y1), PyMax(x0, x1), PyMax(y0, y1))
             clamped == Rect(PyMax(pr.x0, norm.x0), PyMax(pr.y0, norm.y0),
                             PyMin(pr.x1, norm.x1), PyMin(pr.y1, norm.y1))
         IN IF WidthIsZero(clamped) \/ HeightIsZero(clamped) THEN None
            ELSE clamped

\* _pdf_rect_to_widget without the centring offsets
PdfRectToWidgetNoOffset(rect, scale, off) ==
    NormalizedF(Screen(Mul(rect.x0, scale), Zero),
                Screen(Mul(rect.y0, scale), Zero),
                Screen(Mul(rect.x1, scale), Zero),
                Screen(Mul(rect.y1, scale), Zero))

\* _pdf_rect_to_widget
PdfRectToWidget(rect, scale, off) ==
    NormalizedF(Screen(Mul(rect.x0, scale), off[1]),
                Screen(Mul(rect.y0, scale), off[2]),
                Screen(Mul(rect.x1, scale), off[1]),
                Screen(Mul(rect.y1, scale), off[2]))

\* _update_rubber_band_from_pdf: the rubber band afterwards.  The geometry
\* is kept as the QRectF that toRect() rounds to pixels.
UpdateRubberBandFromPdf(pm, sel, scale, vp) ==
    IF ~(pm # None /\ Truthy(sel)) THEN None
    ELSE LET rect == PdfRectToWidget(sel, scale, ImageOffsets(pm, vp))
         IN IF ~ScreenLess(rect.left, rect.right) \/ ~ScreenLess(rect.top, rect.bottom)
            THEN None
            ELSE rect

\* set_page forgetting keep_selection: the selection is always dropped
SetPageDropsSelection(rect, scale, keep_selection) ==
    LET pm == RenderPagePixmap(rect, scale)
    IN /\ page_rect' = rect
       /\ viewer_scale_factor' = scale
       /\ pixmap' = pm
       /\ pdf_selection' = None
       /\ rubber_band' = None
       /\ UNCHANGED <<dragging, drag_start, viewport_size>>

\* set_page: page_rect, scale_factor, pixmap, _pdf_selection and the rubber
\* band afterwards
SetPage(rect, scale, keep_selection) ==
    LET pm == RenderPagePixmap(rect, scale)
        sel == IF keep_selection THEN pdf_selection ELSE None
    IN /\ page_rect' = rect
       /\ viewer_scale_factor' = scale
       /\ pixmap' = pm
       /\ pdf_selection' = sel
       /\ rubber_band' = UpdateRubberBandFromPdf(pm, sel, scale, viewport_size)
       /\ UNCHANGED <<dragging, drag_start, viewport_size>>

(***************************************************************************)
(* MainWindow                                                              *)
(***************************************************************************)

One == Num(1)

\* 1.25
ZoomStep == Norm(5, -2, 0, 0)

\* 6.0
MaxScale == Num(6)

\* 0.2
MinScale == Norm(1, 0, 0, -1)

\* json_view with no text
EmptyText == [tag |-> "empty"]

\* _update_controls
UpdateControls(d, index, sel) ==
    [prev |-> d # None /\ index > 0,
     next |-> d # None /\ index < d.pages - 1,
     zoom_in |-> d # None,
     zoom_out |-> d # None,
     reset_zoom |-> d # None,
     copy |-> sel # None]

\* update_selection_info: the text shown for an emitted rect
SelectionInfo(rect, index) ==
    IF Truthy(rect)
    THEN [page |-> index + 1,
          rect |-> <<rect.x0, rect.y0, rect.x1, rect.y1>>]
    ELSE EmptyText

\* selection_changed.emit(rect), received by update_selection_info
Emit(rect, d, index, sel) ==
    /\ emitted' = <<rect>>
    /\ json_view' = SelectionInfo(rect, index)
    /\ buttons' = UpdateControls(d, index, sel)

\* a handler that returns without doing anything
Return ==
    /\ emitted' = <<>>
    /\ UNCHANGED <<window, viewer>>

\* load_page(keep_selection=False) without its call of clear_selection
LoadPageFreshNoClear(d, index, scale) ==
    /\ SetPage(PageRect(index), scale, FALSE)
    /\ emitted' = <<>>
    /\ UNCHANGED <<buttons, json_view>>

\* load_page(keep_selection=False) on page index of document d at scale
LoadPageFresh(d, index, scale) ==
    /\ SetPage(PageRect(index), scale, FALSE)
    /\ Emit(None, d, index, None)

\* load_page(keep_selection=True)
LoadPageKeep(index, scale) ==
    /\ SetPage(PageRect(index), scale, TRUE)
    /\ emitted' = <<>>
    /\ UNCHANGED <<buttons, json_view>>

\* open_pdf resetting the page index and the scale before fitz.open succeeds
open_pdf_resets_first(path) ==
    IF ~path.chosen THEN Return
    ELSE IF path.pages = 0
    THEN /\ current_page_index' = 0
         /\ scale_factor' = One
         /\ emitted' = <<>>
         /\ UNCHANGED <<doc, buttons, json_view, viewer>>
    ELSE /\ doc' = [pages |-> path.pages]
         /\ current_page_index' = 0
         /\ scale_factor' = One
         /\ LoadPageFresh([pages |-> path.pages], 0, One)

open_pdf(path) ==
    IF ~path.chosen \/ path.pages = 0 THEN Return
    ELSE /\ doc' = [pages |-> path.pages]
         /\ current_page_index' = 0
         /\ scale_factor' = One
         /\ LoadPageFresh([pages |-> path.pages], 0, One)

\* next_page resetting the zoom as open_pdf does
next_page_resets_zoom ==
    IF doc # None /\ current_page_index < doc.pages - 1
    THEN /\ current_page_index' = current_page_index + 1
         /\ scale_factor' = One
         /\ LoadPageFresh(doc, current_page_index + 1, One)
         /\ UNCHANGED doc
    ELSE Return

\* next_page without the test for the last page
next_page_unguarded ==
    IF doc # None
    THEN /\ current_page_index' = current_page_index + 1
         /\ LoadPageFresh(doc, current_page_index + 1, scale_factor)
         /\ UNCHANGED <<doc, scale_factor>>
    ELSE Return

next_page ==
    IF doc # None /\ current_page_index < doc.pages - 1
    THEN /\ current_page_index' = current_page_index + 1
         /\ LoadPageFresh(doc, current_page_index + 1, scale_factor)
         /\ UNCHANGED <<doc, scale_factor>>
    ELSE Return

prev_page ==
    IF doc # None /\ current_page_index > 0
    THEN /\ current_page_index' = current_page_index - 1
         /\ LoadPageFresh(doc, current_page_index - 1, scale_factor)
         /\ UNCHANGED <<doc, scale_factor>>
    ELSE Return

ZoomTo(scale) ==
    /\ scale_factor' = scale
    /\ LoadPageKeep(current_page_index, scale)
    /\ UNCHANGED <<doc, current_page_index>>

\* zoom_in without the cap at 6.0
zoom_in_uncapped ==
    IF doc = None THEN Return
    ELSE ZoomTo(Mul(scale_factor, ZoomStep))

zoom_in ==
    IF doc = None THEN Return
    ELSE ZoomTo(PyMin(Mul(scale_factor, ZoomStep), MaxScale))

zoom_out ==
    IF doc = None THEN Return
    ELSE ZoomTo(PyMax(Div(scale_factor, ZoomStep), MinScale))

reset_zoom ==
    IF doc = None THEN Return
    ELSE ZoomTo(One)

\* clear_selection without selection_changed.emit(None)
clear_selection_silent ==
    /\ pdf_selection' = None
    /\ rubber_band' = None
    /\ emitted' = <<>>
    /\ UNCHANGED <<window, pixmap, page_rect, viewer_scale_factor, dragging,
                   drag_start, viewport_size>>

\* MainWindow.clear_selection -> PdfViewerWidget.clear_selection
clear_selection ==
    /\ pdf_selection' = None
    /\ rubber_band' = None
    /\ Emit(None, doc, current_page_index, None)
    /\ UNCHANGED <<doc, current_page_index, scale_factor, pixmap, page_rect,
                   viewer_scale_factor, dragging, drag_start, viewport_size>>

\* copy_rect: the text goes to the system clipboard, which is no state of
\* the program
copy_rect == Return

(***************************************************************************)
(* Pointer and resize events of the viewer                                 *)
(***************************************************************************)

\* mousePressEvent without the test for a pixmap
mousePressEvent_without_pixmap(button, pos) ==
    IF button = "left"
    THEN /\ dragging' = TRUE
         /\ drag_start' = pos
         /\ rubber_band' = QRectOfSize(pos)
         /\ emitted' = <<>>
         /\ UNCHANGED <<window, pixmap, page_rect, viewer_scale_factor,
                        pdf_selection, viewport_size>>
    ELSE Return

\* mousePressEvent dropping the stored selection when the drag starts
mousePressEvent_clears(button, pos) ==
    IF button = "left" /\ pixmap # None
    THEN /\ dragging' = TRUE
         /\ drag_start' = pos
         /\ rubber_band' = QRectOfSize(pos)
         /\ pdf_selection' = None
         /\ emitted' = <<>>
         /\ UNCHANGED <<window, pixmap, page_rect, viewer_scale_factor,
                        viewport_size>>
    ELSE Return

mousePressEvent(button, pos) ==
    IF button = "left" /\ pixmap # None
    THEN /\ dragging' = TRUE
         /\ drag_start' = pos
         /\ rubber_band' = QRectOfSize(pos)
         /\ emitted' = <<>>
         /\ UNCHANGED <<window, pixmap, page_rect, viewer_scale_factor,
                        pdf_selection, viewport_size>>
    ELSE Return

\* setGeometry on a hidden rubber band leaves it hidden
mouseMoveEvent(pos) ==
    IF dragging /\ pixmap # None
    THEN /\ rubber_band' = IF rubber_band = None THEN None
                           ELSE Normalized(QRect(drag_start, pos))
         /\ emitted' = <<>>
         /\ UNCHANGED <<window, pixmap, page_rect, viewer_scale_factor,
                        pdf_selection, dragging, drag_start, viewport_size>>
    ELSE Return

\* the rect mouseReleaseEvent converts
ReleaseRect(start, pos) == QRectF(Normalized(QRect(start, pos)))

\* mouseReleaseEvent emitting before it stores the result: the controls are
\* refreshed against the previous selection
mouseReleaseEvent_emits_first(button, pos) ==
    IF button = "left" /\ dragging /\ pixmap # None
    THEN LET sel == WidgetRectToPdf(ReleaseRect(drag_start, pos), page_rect,
                                    viewer_scale_factor,
                                    ImageOffsets(pixmap, viewport_size))
         IN /\ dragging' = FALSE
            /\ pdf_selection' = sel
            /\ rubber_band' = UpdateRubberBandFromPdf(pixmap, sel,
                                   viewer_scale_factor, viewport_size)
            /\ Emit(sel, doc, current_page_index, pdf_selection)
            /\ UNCHANGED <<doc, current_page_index, scale_factor, pixmap,
                           page_rect, viewer_scale_factor, drag_start,
                           viewport_size>>
    ELSE Return

\* mouseReleaseEvent returning early when the conversion gives None: the
\* previous selection stays and nothing is emitted
mouseReleaseEvent_keeps_prior(button, pos) ==
    IF button = "left" /\ dragging /\ pixmap # None
    THEN LET sel == WidgetRectToPdf(ReleaseRect(drag_start, pos), page_rect,
                                    viewer_scale_factor,
                                    ImageOffsets(pixmap, viewport_size))
         IN IF sel = None
            THEN /\ dragging' = FALSE
                 /\ rubber_band' = UpdateRubberBandFromPdf(pixmap, pdf_selection,
                                        viewer_scale_factor, viewport_size)
                 /\ emitted' = <<>>
                 /\ UNCHANGED <<window, pixmap, page_rect, viewer_scale_factor,
                                pdf_selection, drag_start, viewport_size>>
            ELSE /\ dragging' = FALSE
                 /\ pdf_selection' = sel
                 /\ rubber_band' = UpdateRubberBandFromPdf(pixmap, sel,
                                        viewer_scale_factor, viewport_size)
                 /\ Emit(sel, doc, current_page_index, sel)
                 /\ UNCHANGED <<doc, current_page_index, scale_factor, pixmap,
                                page_rect, viewer_scale_factor, drag_start,
                                viewport_size>>
    ELSE Return

mouseReleaseEvent(button, pos) ==
    IF button = "left" /\ dragging /\ pixmap # None
    THEN LET sel == WidgetRectToPdf(ReleaseRect(drag_start, pos), page_rect,
                                    viewer_scale_factor,
                                    ImageOffsets(pixmap, viewport_size))
         IN /\ dragging' = FALSE
            /\ pdf_selection' = sel
            /\ rubber_band' = UpdateRubberBandFromPdf(pixmap, sel,
                                   viewer_scale_factor, viewport_size)
            /\ Emit(sel, doc, current_page_index, sel)
            /\ UNCHANGED <<doc, current_page_index, scale_factor, pixmap,
                           page_rect, viewer_scale_factor, drag_start,
                           viewport_size>>
    ELSE Return

\* set_viewport_size without _update_rubber_band_from_pdf
set_viewport_size_no_refresh(size) ==
    /\ viewport_size' = size
    /\ emitted' = <<>>
    /\ UNCHANGED <<window, pixmap, page_rect, viewer_scale_factor,
                   pdf_selection, dragging, drag_start, rubber_band>>

set_viewport_size(size) ==
    /\ viewport_size' = size
    /\ rubber_band' = IF pixmap = None THEN None
                      ELSE UpdateRubberBandFromPdf(pixmap, pdf_selection,
                               viewer_scale_factor, size)
    /\ emitted' = <<>>
    /\ UNCHANGED <<window, pixmap, page_rect, viewer_scale_factor,
                   pdf_selection, dragging, drag_start>>

(***************************************************************************)
(* The program: construction, then one event at a time                     *)
(***************************************************************************)

Init ==
    /\ doc = None
    /\ current_page_index = 0
    /\ scale_factor = One
    /\ buttons = UpdateControls(None, 0, None)
    /\ json_view = EmptyText
    /\ pixmap = None
    /\ page_rect = None
    /\ viewer_scale_factor = One
    /\ pdf_selection = None
    /\ dragging = FALSE
    /\ drag_start = <<0, 0>>
    /\ viewport_size = <<-1, -1>>
    /\ rubber_band = None
    /\ emitted = <<>>

OpenPdf == \E path \in Paths : open_pdf(path)

NextPage == next_page

PrevPage == prev_page

RECURSIVE ZoomPower(_)
\* 1.25^k
ZoomPower(k) ==
    IF k = 0 THEN Num(1)
    ELSE IF k > 0 THEN Mul(ZoomPower(k - 1), Norm(5, -2, 0, 0))
    ELSE Div(ZoomPower(k + 1), Norm(5, -2, 0, 0))

InZoomWindow(scale) ==
    /\ Leq(ZoomPower(-MaxZoomSteps), scale)
    /\ Leq(scale, ZoomPower(MaxZoomSteps))

ZoomIn == InZoomWindow(Mul(scale_factor, ZoomStep)) /\ zoom_in

ZoomOut == InZoomWindow(Div(scale_factor, ZoomStep)) /\ zoom_out

ResetZoom == reset_zoom

ClearSelection == clear_selection

CopyRect == copy_rect

MousePress == \E button \in Buttons, pos \in Points : mousePressEvent(button, pos)

MouseMove == \E pos \in Points : mouseMoveEvent(pos)

MouseRelease == \E button \in Buttons, pos \in Points : mouseReleaseEvent(button, pos)

Resize == \E size \in ViewportSizes : set_viewport_size(size)

Next ==
    \/ OpenPdf
    \/ NextPage
    \/ PrevPage
    \/ ZoomIn
    \/ ZoomOut
    \/ ResetZoom
    \/ ClearSelection
    \/ CopyRect
    \/ MousePress
    \/ MouseMove
    \/ MouseRelease
    \/ Resize

Spec == Init /\ [][Next]_vars

(***************************************************************************)
(* SpecZoom: the whole zoom range.  The user starts drags at scale 1.0     *)
(* only and does not zoom during a drag.                                   *)
(***************************************************************************)

ZoomInAny == ~dragging /\ zoom_in

ZoomOutAny == ~dragging /\ zoom_out

PressAtOne == scale_factor = One /\ MousePress

NextZoom ==
    \/ OpenPdf
    \/ NextPage
    \/ PrevPage
    \/ ZoomInAny
    \/ ZoomOutAny
    \/ ResetZoom
    \/ ClearSelection
    \/ CopyRect
    \/ PressAtOne
    \/ MouseMove
    \/ MouseRelease
    \/ Resize

SpecZoom == Init /\ [][NextZoom]_vars

(***************************************************************************)
(* Properties                                                              *)
(***************************************************************************)

\* C1: zoom_in, zoom_out and reset_zoom leave the stored page-space
\* rectangle exactly as it was.
ZoomKeepsSelection ==
    [][(zoom_in \/ zoom_out \/ reset_zoom) => pdf_selection' = pdf_selection]_vars

\* C1 witness: the selection committed as (10,10,50,50) at scale 1.0 on the
\* 200x200 page, now shown at scale 1.25
ZoomedSelection ==
    /\ pdf_selection = Rect(Num(10), Num(10), Num(50), Num(50))
    /\ page_rect = Rect(Zero, Zero, Num(200), Num(200))
    /\ scale_factor = ZoomStep
    /\ viewer_scale_factor = ZoomStep

\* C2: a step that changes the page index ends with no stored selection and
\* emits exactly one notification, carrying None.
PageChangeClearsSelection ==
    [][current_page_index' # current_page_index
         => pdf_selection' = None /\ emitted' = <<None>>]_vars

\* C2 witness: on the second page right after the notification, with the
\* viewer zoomed and the viewport sized
PageChanged ==
    /\ current_page_index = 1
    /\ page_rect = PageRect(1)
    /\ pdf_selection = None
    /\ emitted = <<None>>
    /\ rubber_band = None
    /\ scale_factor # One
    /\ viewport_size # <<-1, -1>>

\* C3 as claimed: a page change during a drag ends the drag.
PageChangeEndsDrag ==
    [][(dragging /\ current_page_index' # current_page_index) => ~dragging']_vars

\* C4: the stored selection is absent, or x0 < x1 and y0 < y1 and it lies
\* within the rect of the loaded page.
SelectionWithinPage ==
    pdf_selection # None =>
        /\ doc # None
        /\ page_rect = PageRect(current_page_index)
        /\ Less(pdf_selection.x0, pdf_selection.x1)
        /\ Less(pdf_selection.y0, pdf_selection.y1)
        /\ Leq(page_rect.x0, pdf_selection.x0)
        /\ Leq(page_rect.y0, pdf_selection.y0)
        /\ Leq(pdf_selection.x1, page_rect.x1)
        /\ Leq(pdf_selection.y1, page_rect.y1)

\* C4 witness: a selection whose left and top edges were clamped to the page
\* (the drag began left of and above the centred raster)
ClampedSelection ==
    /\ pdf_selection # None
    /\ pdf_selection.x0 = Zero
    /\ pdf_selection.y0 = Zero
    /\ ~dragging
    /\ Less(Zero, ImageOffsets(pixmap, viewport_size)[1])
    /\ Less(Zero, ImageOffsets(pixmap, viewport_size)[2])

\* C5 as claimed: releasing at the anchor point stores no selection and
\* ends the drag.
ClickStoresNothing ==
    [][\A pos \in Points :
         (dragging /\ pixmap # None /\ pos = drag_start
            /\ mouseReleaseEvent("left", pos))
         => (pdf_selection' = None /\ ~dragging')]_vars

\* screen rectangles with pixel edges, for C6
SampleEdges == {-20, 5, 60, 300, 400}

SampleRects ==
    {[left |-> Pixel(l), top |-> Pixel(t), right |-> Pixel(r), bottom |-> Pixel(b)] :
        <<l, t, r, b>> \in {q \in SampleEdges \X SampleEdges \X SampleEdges \X SampleEdges :
                               q[1] < q[3] /\ q[2] < q[4]}}

\* rect lies left of, right of, above or below the page raster projected to
\* the screen, [offset, offset + page size * scale] on each axis
LeftOfRaster(rect, off) == Leq(rect.right.o, off[1])

RightOfRaster(rect, pr, scale, off) == Leq(Mul(pr.x1, scale), Sub(rect.left.o, off[1]))

AboveRaster(rect, off) == Leq(rect.bottom.o, off[2])

BelowRaster(rect, pr, scale, off) == Leq(Mul(pr.y1, scale), Sub(rect.top.o, off[2]))

OutsideRaster(rect, pr, scale, off) ==
    \/ LeftOfRaster(rect, off)
    \/ RightOfRaster(rect, pr, scale, off)
    \/ AboveRaster(rect, off)
    \/ BelowRaster(rect, pr, scale, off)

\* C6: at every scale and offset, a screen rectangle fully outside the
\* projected page raster converts to None.
OutsideConvertsToNone ==
    pixmap # None =>
        \A rect \in SampleRects :
            LET off == ImageOffsets(pixmap, viewport_size)
            IN OutsideRaster(rect, page_rect, viewer_scale_factor, off)
               => WidgetRectToPdf(rect, page_rect, viewer_scale_factor, off) = None

\* C6 witness: with the raster centred, one rectangle lies right of it and
\* another left of it, both within its vertical extent
OutsideBothSides ==
    /\ pixmap # None
    /\ viewer_scale_factor # One
    /\ LET off == ImageOffsets(pixmap, viewport_size)
       IN /\ Less(Zero, off[1])
          /\ \E rect \in SampleRects :
                /\ RightOfRaster(rect, page_rect, viewer_scale_factor, off)
                /\ ~AboveRaster(rect, off)
                /\ ~BelowRaster(rect, page_rect, viewer_scale_factor, off)
          /\ \E rect \in SampleRects :
                /\ LeftOfRaster(rect, off)
                /\ ~AboveRaster(rect, off)
                /\ ~BelowRaster(rect, page_rect, viewer_scale_factor, off)

\* the rectangle C7 says a drag from a to r commits
ClaimedCommit(a, r, pr, scale, off) ==
    Rect(PyMax(pr.x0, Div(Sub(Num(Min2(a[1], r[1])), off[1]), scale)),
         PyMax(pr.y0, Div(Sub(Num(Min2(a[2], r[2])), off[2]), scale)),
         PyMin(pr.x1, Div(Sub(Num(Max2(a[1], r[1])), off[1]), scale)),
         PyMin(pr.y1, Div(Sub(Num(Max2(a[2], r[2])), off[2]), scale)))

\* C7 as claimed: a drag that commits a rectangle commits the span from
\* min(A, R) to max(A, R), less the offset, over the scale, clamped.
DragCommitsSpan ==
    [][\A pos \in Points :
         (dragging /\ pixmap # None /\ mouseReleaseEvent("left", pos)
            /\ pdf_selection' # None)
         => pdf_selection' = ClaimedCommit(drag_start, pos, page_rect,
                                 viewer_scale_factor,
                                 ImageOffsets(pixmap, viewport_size))]_vars

ScaleWithinBounds ==
    /\ [](Leq(MinScale, scale_factor) /\ Leq(scale_factor, MaxScale))
    /\ [][(doc # None /\ zoom_in) =>
            IF Less(MaxScale, Mul(scale_factor, ZoomStep))
            THEN scale_factor' = MaxScale
            ELSE scale_factor' = Mul(scale_factor, ZoomStep)]_vars
    /\ [][(doc # None /\ zoom_out) =>
            IF Less(Div(scale_factor, ZoomStep), MinScale)
            THEN scale_factor' = MinScale
            ELSE scale_factor' = Div(scale_factor, ZoomStep)]_vars

\* C9 witness: scale 4.8, one zoom_out below the cap, and scale 0.25 is
\* reached the same way from the floor
BelowCap ==
    /\ doc # None
    /\ scale_factor = Div(MaxScale, ZoomStep)
    /\ viewer_scale_factor = scale_factor

\* C10: an open that is cancelled or fails changes nothing and emits
\* nothing.
FailedOpenChangesNothing ==
    [][\A path \in Paths :
         ((~path.chosen \/ path.pages = 0) /\ open_pdf(path))
         => (UNCHANGED <<window, viewer>> /\ emitted' = <<>>)]_vars

\* C10 witness: a loaded document on its second page, zoomed, with a stored
\* selection, after a handler that emitted nothing
LoadedAndQuiet ==
    /\ doc # None
    /\ current_page_index = 1
    /\ scale_factor # One
    /\ pdf_selection # None
    /\ ~dragging
    /\ emitted = <<>>

\* C11: next_page on the last page and prev_page on the first page change
\* neither the page index, the scale nor the stored selection and emit
\* nothing; with a document loaded the page index is within
\* [0, page_count - 1].
BoundaryNavigationIsNoOp ==
    /\ [](doc # None =>
            (0 <= current_page_index /\ current_page_index <= doc.pages - 1))
    /\ [][(doc # None /\ current_page_index = doc.pages - 1 /\ next_page)
            => (UNCHANGED <<current_page_index, scale_factor, pdf_selection>>
                /\ emitted' = <<>>)]_vars
    /\ [][(doc # None /\ current_page_index = 0 /\ prev_page)
            => (UNCHANGED <<current_page_index, scale_factor, pdf_selection>>
                /\ emitted' = <<>>)]_vars

\* C11 witness: on the only page of a one-page document, first and last at
\* once, zoomed, with a stored selection that a silent handler left alone
OnlyPageQuiet ==
    /\ doc # None
    /\ doc.pages = 1
    /\ current_page_index = 0
    /\ pdf_selection # None
    /\ scale_factor # One
    /\ emitted = <<>>

\* C12: a left-button release during a drag ends the drag; when the
\* conversion gives None no selection is stored afterwards and None is
\* emitted once, otherwise the converted rectangle is stored and emitted
\* once.
ReleaseResolvesDrag ==
    [][\A pos \in Points :
         (dragging /\ pixmap # None /\ mouseReleaseEvent("left", pos)) =>
            LET result == WidgetRectToPdf(ReleaseRect(drag_start, pos), page_rect,
                              viewer_scale_factor,
                              ImageOffsets(pixmap, viewport_size))
            IN /\ ~dragging'
               /\ result = None =>
                    (pdf_selection' = None /\ emitted' = <<None>>)
               /\ result # None =>
                    (pdf_selection' = result /\ emitted' = <<result>>)]_vars

\* C12 witness: a drag released on the second page whose rectangle was
\* stored and emitted
DragCommitted ==
    /\ ~dragging
    /\ current_page_index = 1
    /\ pdf_selection # None
    /\ emitted = <<pdf_selection>>
    /\ rubber_band # None

\* C13: what update_selection_info last displayed, the rectangle and page of
\* the latest notification or nothing, is the stored selection on the
\* current page.
NotifiedIsStored ==
    json_view = SelectionInfo(pdf_selection, current_page_index)

\* C13 witness: a selection on the second page that was notified by an
\* earlier handler and is still stored after a zoom
NotifiedEarlier ==
    /\ pdf_selection # None
    /\ current_page_index = 1
    /\ json_view # EmptyText
    /\ json_view.page = 2
    /\ emitted = <<>>
    /\ viewer_scale_factor # One

\* C14: mousePressEvent and mouseMoveEvent change nothing but the dragging
\* flag, the drag anchor and the rubber band, and emit nothing: the stored
\* selection, the scale and the page index stay as they were.
PressAndMoveKeepSelection ==
    [][((\E button \in Buttons, pos \in Points : mousePressEvent(button, pos))
          \/ (\E pos \in Points : mouseMoveEvent(pos)))
         => (/\ UNCHANGED <<window, pixmap, page_rect, viewer_scale_factor,
                            pdf_selection, viewport_size>>
             /\ emitted' = <<>>)]_vars

\* C14 witness: a drag over a stored selection, the rubber band moved away
\* from the anchor
PreviewOverSelection ==
    /\ dragging
    /\ pdf_selection # None
    /\ emitted = <<>>
    /\ \E pos \in Points :
          /\ pos # drag_start
          /\ rubber_band = Normalized(QRect(drag_start, pos))

\* C15 as claimed: while a drag is in progress no page-space rectangle is
\* stored.
DraggingStoresNothing ==
    dragging => pdf_selection = None

\* the rubber band that shows rect
Overlay(sel, pm, scale, vp) == PdfRectToWidget(sel, scale, ImageOffsets(pm, vp))

OtherOperation ==
    \/ \E path \in Paths : open_pdf(path)
    \/ next_page
    \/ prev_page
    \/ \E button \in Buttons, pos \in Points : mousePressEvent(button, pos)
    \/ \E pos \in Points : mouseMoveEvent(pos)
    \/ \E button \in Buttons, pos \in Points : mouseReleaseEvent(button, pos)
    \/ clear_selection
    \/ copy_rect
    \/ \E size \in ViewportSizes : set_viewport_size(size)

\* C17 as claimed: every operation other than zoom_in, zoom_out and
\* reset_zoom leaves the scale unchanged.
OnlyZoomChangesScale ==
    [][OtherOperation => scale_factor' = scale_factor]_vars

\* C17 amended: a successful open_pdf sets the scale to 1.0; a cancelled or
\* failed open_pdf and every other operation besides zoom_in, zoom_out and
\* reset_zoom leave the scale unchanged.
OnlyZoomAndOpenChangeScale ==
    [][OtherOperation =>
         IF \E path \in Paths : path.chosen /\ path.pages > 0 /\ open_pdf(path)
         THEN scale_factor' = One
         ELSE scale_factor' = scale_factor]_vars

\* C17 witness: back on the first page of a two-page document after a page
\* change, still zoomed out, a drag in progress
ZoomedAcrossPages ==
    /\ doc # None
    /\ doc.pages = 2
    /\ current_page_index = 0
    /\ emitted = <<None>>
    /\ dragging
    /\ Less(scale_factor, One)
    /\ viewer_scale_factor = scale_factor

\* C18: while no document is open there is no drag, no stored selection, no
\* pixmap, the scale is 1.0, the page index is 0 and no handler emitted a
\* rectangle.
NothingWithoutDocument ==
    doc = None =>
        /\ ~dragging
        /\ pdf_selection = None
        /\ pixmap = None
        /\ rubber_band = None
        /\ scale_factor = One
        /\ current_page_index = 0
        /\ \A i \in 1..Len(emitted) : emitted[i] = None

\* C18 witness: still no document after the viewport was sized and a later
\* handler returned without emitting
EventsWithoutDocument ==
    /\ doc = None
    /\ viewport_size # <<-1, -1>>
    /\ emitted = <<>>
    /\ ~buttons.zoom_in

\* C19: Copy is enabled iff a selection is stored, Previous iff a document
\* is loaded and the page index is above 0, Next iff a document is loaded
\* and the page index is below page_count - 1, the zoom buttons iff a
\* document is loaded.
ControlsMatchState ==
    /\ buttons.copy <=> pdf_selection # None
    /\ buttons.prev <=> (doc # None /\ current_page_index > 0)
    /\ buttons.next <=> (doc # None /\ current_page_index < doc.pages - 1)
    /\ buttons.zoom_in <=> doc # None
    /\ buttons.zoom_out <=> doc # None
    /\ buttons.reset_zoom <=> doc # None

\* C19 witness: Copy and Next enabled, Previous disabled: a selection on the
\* first page of a two-page document
CopyAndNextEnabled ==
    /\ buttons.copy
    /\ buttons.next
    /\ ~buttons.prev
    /\ buttons.zoom_in
    /\ pdf_selection # None
    /\ scale_factor # One

====
